---- MODULE Spec2Model ----
(***************************************************************************)
(* Model of nanonet's basecalling driver, nanonet/nanonetcall.py:          *)
(*   clean_post           the posterior cleaner                            *)
(*   process_read         one read on the CPU                              *)
(*   process_read_opencl  one batch of reads on an OpenCL device           *)
(*   main                 worker set-up, dispatch selection, aggregation   *)
(*                                                                         *)
(* Probabilities are exact rationals [n, d]; the result of a floating      *)
(* division 0/0 is the distinguished value NaN.  Floating-point rounding   *)
(* is not modelled.                                                        *)
(***************************************************************************)
EXTENDS Integers, Sequences, FiniteSets

VARIABLES
    unit,        \* one call of process_read: its inputs and what it returned
    batch,       \* one call of process_read_opencl: its inputs and what it returned
    args,        \* main: the parsed command line
    kmers,       \* main: network.meta['kmers'] of the model file
    pc,          \* main: "select", "run", "done" or "crashed"
    topology,    \* main: which branch of lines 369-381 built the mapper
    workers,     \* main: the list of (function, n_files) pairs
    fast5_files, \* main: reads the mapper has not handed to a worker yet
    mapper,      \* main: results produced and not yet taken by the for loop
    acc,         \* main: n_reads, n_bases, n_events, timings and the fasta stream
    consumed     \* history: every result the for loop has taken, in order

vars ==
    <<unit, batch, args, kmers, pc, topology, workers, fast5_files, mapper,
      acc, consumed>>

-----------------------------------------------------------------------------
(* Bounds of the model *)

MaxRows ==
    2

MaxVal ==
    1

MaxReads ==
    3

MaxJobs ==
    2

MaxCap ==
    2

(* min_prob=1e-5, the default of process_read and process_read_opencl *)
MinProbDen ==
    100000

-----------------------------------------------------------------------------
(* Sequences *)

RECURSIVE SumSeq(_)
SumSeq(s) ==
    IF s = <<>> THEN 0 ELSE s[1] + SumSeq(Tail(s))

RECURSIVE Compress(_, _)
Compress(s, keep) ==
    IF s = <<>> THEN <<>>
    ELSE (IF keep[1] THEN <<s[1]>> ELSE <<>>) \o Compress(Tail(s), Tail(keep))

-----------------------------------------------------------------------------
(* Floating values: a rational n/d, or NaN *)

Rat(n, d) ==
    [n |-> n, d |-> d, nan |-> FALSE]

NaN ==
    [n |-> 0, d |-> 0, nan |-> TRUE]

min_prob ==
    Rat(1, MinProbDen)

(* post /= weights, one entry: numpy gives nan for 0/0 and warnings are off *)
Divide(x, w) ==
    IF w = 0 THEN NaN ELSE Rat(x, w)

FloorTransformMutant(mp, p) ==
    IF p.nan THEN NaN
    ELSE Rat((mp.d - mp.n) * p.n, mp.d * p.d)

(* min_prob + (1.0 - min_prob) * p *)
FloorTransform(mp, p) ==
    IF p.nan THEN NaN
    ELSE Rat(mp.n * p.d + (mp.d - mp.n) * p.n, mp.d * p.d)

-----------------------------------------------------------------------------
(* clean_post *)

(* kmers[-1] == 'X'*len(kmers[-1]); a kmer is a sequence of letters *)
IsBadKmer(k) ==
    \A i \in 1..Len(k) : k[i] = "X"

(* np.argmax of one row: the first index holding the maximum *)
argmax(row) ==
    CHOOSE i \in 1..Len(row) :
        /\ \A j \in 1..Len(row) : row[j] <= row[i]
        /\ \A j \in 1..(i - 1) : row[j] < row[i]

(* lines 175-177: weights, post /= weights, the floor *)
Normalise(post, mp) ==
    [i \in 1..Len(post) |->
        [j \in 1..Len(post[i]) |->
            FloorTransform(mp, Divide(post[i][j], SumSeq(post[i])))]]

(* What clean_post returns: kind "ok" (post, good_events), "empty" (None, None)
   or "unbound" (the return statement names good_events, which only the
   sentinel branch assigns: UnboundLocalError).  weights is the local of
   line 175, kept to say which rows were divided by zero. *)
clean_post(post, kmer_table, mp) ==
    LET hasX        == IsBadKmer(kmer_table[Len(kmer_table)])
        bad_kmer    == Len(post[1])
        max_call    == [i \in 1..Len(post) |-> argmax(post[i])]
        good_events == [i \in 1..Len(post) |-> max_call[i] # bad_kmer]
        kept        == Compress(post, good_events)
        stripped    == [i \in 1..Len(kept) |-> SubSeq(kept[i], 1, Len(kept[i]) - 1)]
        body        == IF hasX THEN stripped ELSE post
        weights     == [i \in 1..Len(body) |-> SumSeq(body[i])]
    IN  IF hasX /\ Len(stripped) = 0
        THEN [kind |-> "empty", post |-> <<>>, good_events |-> <<>>,
              weights |-> <<>>]
        ELSE [kind |-> IF hasX THEN "ok" ELSE "unbound",
              post |-> Normalise(body, mp),
              good_events |-> IF hasX THEN good_events ELSE <<>>,
              weights |-> weights]

-----------------------------------------------------------------------------
(* Results *)

(* the None a failed read is reported as *)
None ==
    [ok |-> FALSE, fname |-> 0, basecall |-> 0, n_ev |-> 0,
     network_time |-> 0, decode_time |-> 0]

(* (fname, seq, score, len(features)), (network_time, decode_time); the
   sequence is kept as its length, the score is not kept *)
Success(fname, basecall, n_ev, network_time, decode_time) ==
    [ok |-> TRUE, fname |-> fname, basecall |-> basecall, n_ev |-> n_ev,
     network_time |-> network_time, decode_time |-> decode_time]

-----------------------------------------------------------------------------
(* Collaborators outside nanonetcall.py *)

(* decoding.decode_homogenous / fast_estimate_transitions + decode_profile:
   one state per row of the matrix.  Handed None (an Empty cleaning) the
   decoder is outside its contract: onNone says whether it raises or returns
   an empty path. *)
decode(cleaned, onNone) ==
    IF cleaned.kind = "empty"
    THEN [raised |-> onNone = "raise", states |-> <<>>]
    ELSE [raised |-> FALSE,
          states |-> [i \in 1..Len(cleaned.post) |->
                         argmax([j \in 1..Len(cleaned.post[i]) |->
                                    cleaned.post[i][j].n])]]

(* util.kmers_to_sequence, as the length of the sequence: the first kmer and
   one base for every change of state *)
kmers_to_sequence(kmer_table, states) ==
    IF states = <<>> THEN 0
    ELSE Len(kmer_table[1])
         + Cardinality({i \in 2..Len(states) : states[i] # states[i - 1]})

-----------------------------------------------------------------------------
(* write_to_file: line 186 takes len(post), a TypeError when post is None *)
write_to_file(cleaned) ==
    IF cleaned.kind = "empty" THEN "raise" ELSE "ok"

-----------------------------------------------------------------------------
(* process_read *)

ExtractOutcomes ==
    {"ok", "raise", "noitem"}

(* lines 123-130: it.next() under try / except Exception.  A raising
   extractor and an exhausted one (StopIteration) are both caught. *)
CaughtMutant(ext) ==
    ext = "raise"

Caught(ext) ==
    ext \in {"raise", "noitem"}

NoClean ==
    [kind |-> "none", post |-> <<>>, good_events |-> <<>>, weights |-> <<>>]

Outcome(status, result, stages, cleaned, decoded) ==
    [status |-> status, result |-> result, stages |-> stages,
     cleaned |-> cleaned, decoded |-> decoded]

(* ext: what feature extraction does; post: what network.run returns;
   status of the outcome: "None", "Success", "post" (post_only) or "fault"
   (an exception leaves the function). *)
process_read(kmer_table, fast5, ext, post, mp, post_only, write_events, onNone, network_time, decode_time) ==
    LET cleaned == clean_post(post, kmer_table, mp)
        dec     == decode(cleaned, onNone)
        seq     == kmers_to_sequence(kmer_table, dec.states)
    IN  IF Caught(ext)
        THEN Outcome("None", None, <<>>, NoClean, <<>>)
        ELSE IF ext # "ok"
        THEN Outcome("fault", None, <<>>, NoClean, <<>>)
        ELSE IF cleaned.kind = "unbound"
        THEN Outcome("fault", None, <<"network", "clean">>, cleaned, <<>>)
        ELSE IF post_only
        THEN Outcome(IF cleaned.kind = "empty" THEN "None" ELSE "post",
                     None, <<"network", "clean">>, cleaned, <<>>)
        ELSE IF dec.raised
        THEN Outcome("fault", None, <<"network", "clean", "decode">>,
                     cleaned, <<cleaned>>)
        ELSE IF write_events /\ write_to_file(cleaned) = "raise"
        THEN Outcome("fault", None, <<"network", "clean", "decode", "write">>,
                     cleaned, <<cleaned>>)
        ELSE Outcome("Success",
                     Success(fast5, seq, Len(post), network_time, decode_time),
                     IF write_events
                     THEN <<"network", "clean", "decode", "write">>
                     ELSE <<"network", "clean", "decode">>,
                     cleaned, <<cleaned>>)

-----------------------------------------------------------------------------
(* process_read_opencl *)

Reverse(s) ==
    [i \in 1..Len(s) |-> s[Len(s) + 1 - i]]

RetMutant(data, n) ==
    Reverse(data) \o [i \in 1..(n - Len(data)) |-> None]

(* lines 304-310: ret = zip(data, timings), then
   ret.extend([None] * (len(fast5_list) - n_files)) *)
Ret(data, n) ==
    data \o [i \in 1..(n - Len(data)) |-> None]

BatchOutcome(status, ret, n_files, cleaned) ==
    [status |-> status, ret |-> ret, n_files |-> n_files, cleaned |-> cleaned]

(* raises: make_basecall_input_multi raises while the batch is extracted;
   survives[i]: it yields an item for fast5_list[i] (it skips the others);
   posts[i]: what network.run returns for fast5_list[i];
   network_time, decode_time: the per-read shares of lines 258 and 281.
   status of the outcome: "list" (ret is returned) or "fault". *)
process_read_opencl(kmer_table, fast5_list, raises, survives, posts, mp, write_events, onNone, network_time, decode_time) ==
    LET file_list == Compress(fast5_list, survives)
        post_list == Compress(posts, survives)
        n_files   == Len(file_list)
        cleaned   == [i \in 1..n_files |->
                         clean_post(post_list[i], kmer_table, mp)]
        dec       == [i \in 1..n_files |-> decode(cleaned[i], onNone)]
        data      == [i \in 1..n_files |->
                         Success(file_list[i],
                                 kmers_to_sequence(kmer_table, dec[i].states),
                                 Len(post_list[i]), network_time, decode_time)]
        allNone   == [i \in 1..Len(fast5_list) |-> None]
    IN  IF raises \/ n_files = 0
        THEN BatchOutcome("list", allNone, 0, <<>>)
        ELSE IF \E i \in 1..n_files : cleaned[i].kind = "unbound"
        THEN BatchOutcome("fault", <<>>, n_files, cleaned)
        ELSE IF \E i \in 1..n_files : dec[i].raised
        THEN BatchOutcome("fault", <<>>, n_files, cleaned)
        ELSE IF write_events
                /\ \E i \in 1..n_files : write_to_file(cleaned[i]) = "raise"
        THEN BatchOutcome("fault", <<>>, n_files, cleaned)
        ELSE BatchOutcome("list", Ret(data, Len(fast5_list)), n_files, cleaned)

-----------------------------------------------------------------------------
(* Inputs *)

(* network.meta['kmers']: with the all-X kmer last (two and one real
   classes), and without it *)
KmerTables ==
    { << <<"A", "A">>, <<"A", "C">>, <<"X", "X">> >>,
      << <<"A", "A">>, <<"X", "X">> >>,
      << <<"A", "A">>, <<"A", "C">>, <<"C", "A">> >> }

(* what network.run may return: one row per event, one column per kmer,
   non-negative entries *)
Matrices(ncol) ==
    UNION {[1..r -> [1..ncol -> 0..MaxVal]] : r \in 1..MaxRows}

(* now() is outside the program.  Elapsed times are counted in ticks: on
   the CPU the network takes one tick per event of the read and the decoder
   one tick; a device takes one tick per read for each. *)
CpuNetworkTime(post) ==
    IF post = <<>> THEN 1 ELSE Len(post)

CpuDecodeTime ==
    1

DeviceNetworkTime ==
    1

DeviceDecodeTime ==
    1

OneAt(ncol, c) ==
    [j \in 1..ncol |-> IF j = c THEN 1 ELSE 0]

(* the posteriors drawn for the reads of a batch or of a whole run: a read
   with a good event and one called as the last class, a read called as the
   last class only, a read with an all-zero row, a read with one good event *)
Posteriors(ncol) ==
    { <<OneAt(ncol, 1), OneAt(ncol, ncol)>>,
      <<OneAt(ncol, ncol)>>,
      <<OneAt(ncol, 0)>>,
      <<OneAt(ncol, 1)>> }

(* what may happen to one read handed to process_read: the extractor raises,
   yields no item, or yields features on which network.run returns post *)
UnitFates(ncol) ==
    {[ext |-> e, post |-> <<>>] : e \in {"raise", "noitem"}}
    \cup {[ext |-> "ok", post |-> p] : p \in Posteriors(ncol)}

(* what may happen to the n reads of a batch handed to process_read_opencl:
   the extractor raises, or it yields an item for some of the reads and
   network.run returns a posterior for each of those *)
ReadFates(ncol) ==
    {[survives |-> FALSE, post |-> <<>>]}
    \cup {[survives |-> TRUE, post |-> p] : p \in Posteriors(ncol)}

BatchFates(n, ncol) ==
    {[raises |-> TRUE, reads |-> [i \in 1..n |-> [survives |-> FALSE,
                                                  post |-> <<>>]]]}
    \cup {[raises |-> FALSE, reads |-> f] : f \in [1..n -> ReadFates(ncol)]}

Survives(fate) ==
    [i \in 1..Len(fate.reads) |-> fate.reads[i].survives]

Posts(fate) ==
    [i \in 1..Len(fate.reads) |-> fate.reads[i].post]

-----------------------------------------------------------------------------
(* One call of process_read *)

NoOutcome ==
    Outcome("pending", None, <<>>, NoClean, <<>>)

UnitIdle ==
    [phase |-> "idle", kmers |-> <<>>, ext |-> "ok", post |-> <<>>,
     post_only |-> FALSE, write_events |-> FALSE, out |-> NoOutcome]

NoBatchOutcome ==
    BatchOutcome("pending", <<>>, 0, <<>>)

BatchIdle ==
    [phase |-> "idle", kmers |-> <<>>, fast5_list |-> <<>>, raises |-> FALSE,
     survives |-> <<>>, posts |-> <<>>, out |-> NoBatchOutcome]

MainIdle ==
    /\ args = [exc_opencl |-> FALSE, jobs |-> 1, platforms |-> <<>>,
               write_events |-> FALSE]
    /\ kmers = <<>>
    /\ pc = "idle"
    /\ topology = "none"
    /\ workers = <<>>
    /\ fast5_files = <<>>
    /\ mapper = <<>>
    /\ acc = [n_reads |-> 0, n_bases |-> 0, n_events |-> 0,
              timings |-> <<0, 0>>, fasta |-> <<>>]
    /\ consumed = <<>>

mainVars ==
    <<args, kmers, pc, topology, workers, fast5_files, mapper, acc, consumed>>

InitUnit ==
    /\ \E kt \in KmerTables, e \in ExtractOutcomes :
         \E p \in Matrices(Len(kt)) :
            unit = [phase |-> "call", kmers |-> kt, ext |-> e, post |-> p,
                    post_only |-> FALSE, write_events |-> FALSE,
                    out |-> NoOutcome]
    /\ batch = BatchIdle
    /\ MainIdle

UnitCall ==
    /\ unit.phase = "call"
    /\ \E po \in BOOLEAN, we \in BOOLEAN, onNone \in {"raise", "value"} :
         unit' = [unit EXCEPT
                    !.phase = "returned",
                    !.post_only = po,
                    !.write_events = we,
                    !.out = process_read(unit.kmers, 1, unit.ext, unit.post,
                                         min_prob, po, we, onNone,
                                         CpuNetworkTime(unit.post),
                                         CpuDecodeTime)]
    /\ UNCHANGED <<batch, mainVars>>

NextUnit ==
    UnitCall

SpecUnit ==
    InitUnit /\ [][NextUnit]_vars

-----------------------------------------------------------------------------
(* Properties of process_read and clean_post, under SpecUnit *)

Returned ==
    unit.phase = "returned"

Cleaned ==
    unit.out.cleaned

Abs(x) ==
    IF x < 0 THEN -x ELSE x

HasNaN(row) ==
    \E j \in 1..Len(row) : row[j].nan

(* the entries of one cleaned row share their denominator *)
RowNum(row) ==
    SumSeq([j \in 1..Len(row) |-> row[j].n])

RowDen(row) ==
    row[1].d

(* | sum(row) - 1 | <= 1e-6 *)
SumsToOne(row) ==
    /\ ~HasNaN(row)
    /\ Abs(RowNum(row) - RowDen(row)) <= RowDen(row) \div (10 ^ 6)

(* e >= mp, for mp = mp.n / mp.d *)
AtLeast(e, mp) ==
    /\ ~e.nan
    /\ e.n >= (mp.n * e.d + mp.d - 1) \div mp.d

(* sum(row) = 1 + (K - 1) * mp, K the number of columns of the row *)
SumsToOnePlusFloor(row, mp) ==
    /\ ~HasNaN(row)
    /\ (RowNum(row) - RowDen(row)) * mp.d = (Len(row) - 1) * mp.n * RowDen(row)

(* C4: when feature extraction fails in process_read (the extractor raises
   or yields no item) the call returns None, no exception leaves it, and
   none of inference, cleaning, decoding and the storage write is run. *)
C4_ExtractionFailureIsNone ==
    (Returned /\ unit.ext # "ok") =>
        /\ unit.out.status = "None"
        /\ unit.out.result = None
        /\ unit.out.stages = <<>>

C4_Witness ==
    /\ Returned
    /\ unit.ext = "noitem"
    /\ unit.out.status = "None"

(* C5: whenever the cleaner returns Empty for a read, process_read returns
   None (Failure) for it and no fault propagates. *)
C5_EmptyIsFailure ==
    (Returned /\ Cleaned.kind = "empty") => unit.out.status = "None"

(* C8 as claimed: after clean_post every surviving row sums to 1 within 1e-6
   and every entry is >= min_prob.  Stated for the matrices whose surviving
   rows all have positive weight, where nothing is divided by zero. *)
C8_RowsAreDistributions ==
    (/\ Returned
     /\ Cleaned.kind = "ok"
     /\ \A i \in 1..Len(Cleaned.weights) : Cleaned.weights[i] > 0) =>
        \A i \in 1..Len(Cleaned.post) :
            /\ SumsToOne(Cleaned.post[i])
            /\ \A j \in 1..Len(Cleaned.post[i]) :
                  AtLeast(Cleaned.post[i][j], min_prob)

(* C8 as amended: whenever clean_post returns a matrix, a surviving row of
   positive weight sums to 1 + (K - 1) * min_prob, K being the number of
   columns left, and each of its entries is >= min_prob; a surviving row of
   weight zero is NaN in every entry. *)
C8_RowsSumToOnePlusFloor ==
    (Returned /\ Cleaned.kind = "ok") =>
        \A i \in 1..Len(Cleaned.post) :
            IF Cleaned.weights[i] > 0
            THEN /\ SumsToOnePlusFloor(Cleaned.post[i], min_prob)
                 /\ \A j \in 1..Len(Cleaned.post[i]) :
                       AtLeast(Cleaned.post[i][j], min_prob)
            ELSE \A j \in 1..Len(Cleaned.post[i]) : Cleaned.post[i][j].nan

C8_Witness ==
    /\ Returned
    /\ Cleaned.kind = "ok"
    /\ Len(Cleaned.post) = 2
    /\ Len(Cleaned.post[1]) = 2
    /\ Cleaned.weights[1] > 0
    /\ Cleaned.post[1][2].n > Cleaned.post[1][1].n

(* C9: every call of clean_post that does not return Empty returns a mask as
   long as the original matrix has rows, with as many true entries as the
   cleaned matrix has rows; when the last kmer is not the all-X sentinel the
   mask is all true and no column is dropped. *)
C9_MaskAligned ==
    (Returned /\ unit.ext = "ok" /\ Cleaned.kind # "empty") =>
        /\ Cleaned.kind = "ok"
        /\ Len(Cleaned.good_events) = Len(unit.post)
        /\ Cardinality({i \in 1..Len(Cleaned.good_events) :
                            Cleaned.good_events[i]}) = Len(Cleaned.post)
        /\ ~IsBadKmer(unit.kmers[Len(unit.kmers)]) =>
              /\ \A i \in 1..Len(Cleaned.good_events) : Cleaned.good_events[i]
              /\ Len(Cleaned.post[1]) = Len(unit.post[1])

(* C10: when a surviving row has sum zero at the normalisation step, the
   read becomes a Failure and no matrix holding the result of a division by
   zero is passed on to decoding. *)
C10_ZeroRowIsFailure ==
    (Returned /\ \E i \in 1..Len(Cleaned.weights) : Cleaned.weights[i] = 0) =>
        /\ unit.out.status = "None"
        /\ unit.out.decoded = <<>>

-----------------------------------------------------------------------------
(* One call of process_read_opencl *)

InitBatch ==
    /\ \E kt \in KmerTables, n \in 1..MaxReads :
         \E f \in BatchFates(n, Len(kt)) :
            batch = [phase |-> "call", kmers |-> kt,
                     fast5_list |-> [i \in 1..n |-> i], raises |-> f.raises,
                     survives |-> Survives(f), posts |-> Posts(f),
                     out |-> NoBatchOutcome]
    /\ unit = UnitIdle
    /\ MainIdle

BatchCall ==
    /\ batch.phase = "call"
    /\ \E we \in BOOLEAN, onNone \in {"raise", "value"} :
         batch' = [batch EXCEPT
                     !.phase = "returned",
                     !.out = process_read_opencl(
                                 batch.kmers, batch.fast5_list, batch.raises,
                                 batch.survives, batch.posts, min_prob, we,
                                 onNone, DeviceNetworkTime, DeviceDecodeTime)]
    /\ UNCHANGED <<unit, mainVars>>

NextBatch ==
    BatchCall

SpecBatch ==
    InitBatch /\ [][NextBatch]_vars

BatchReturned ==
    batch.phase = "returned"

Survived(i) ==
    ~batch.raises /\ batch.survives[i]

(* C1: for every batch of N >= 1 reads and every combination of per-read
   outcomes, process_read_opencl returns a list of exactly N results, each a
   Success tuple or None. *)
C1_ReturnsNResults ==
    BatchReturned =>
        /\ batch.out.status = "list"
        /\ Len(batch.out.ret) = Len(batch.fast5_list)

(* C2: in the list process_read_opencl returns, the result at index i is a
   Success naming fast5_list[i] if that read survived feature extraction and
   is None exactly when it did not. *)
C2_PositionsCorrespond ==
    (BatchReturned /\ batch.out.status = "list") =>
        \A i \in 1..Len(batch.fast5_list) :
            IF Survived(i)
            THEN /\ batch.out.ret[i].ok
                 /\ batch.out.ret[i].fname = batch.fast5_list[i]
            ELSE batch.out.ret[i] = None

-----------------------------------------------------------------------------
(* main *)

(* lines 349-361: args.jobs CPU workers unless --exc_opencl, then one worker
   per --platforms entry with its n_files; a CPU worker has n_files None,
   written 0 *)
Workers(a) ==
    (IF ~a.exc_opencl
     THEN [i \in 1..a.jobs |-> [opencl |-> FALSE, n_files |-> 0]]
     ELSE <<>>)
    \o [i \in 1..Len(a.platforms) |->
           [opencl |-> TRUE, n_files |-> a.platforms[i]]]

SelectTopologyMutant(a, w) ==
    IF a.platforms = <<>> THEN "cpu"
    ELSE IF Len(a.platforms) = 1 THEN "single"
    ELSE "hetero"

(* lines 369-381; args.platforms is None is written platforms = <<>> *)
SelectTopology(a, w) ==
    IF a.platforms = <<>> THEN "cpu"
    ELSE IF Len(w) = 1 THEN "single"
    ELSE "hetero"

AggregateMutant(a, result) ==
    [n_reads  |-> a.n_reads + 1,
     n_bases  |-> a.n_bases + result.basecall,
     n_events |-> a.n_events + result.n_ev,
     timings  |-> <<a.timings[1] + result.network_time,
                    a.timings[2] + result.decode_time>>,
     fasta    |-> IF result.ok
                  THEN Append(a.fasta, <<result.fname, result.basecall>>)
                  ELSE a.fasta]

(* lines 385-395, the body of the for loop for one result *)
Aggregate(a, result) ==
    IF ~result.ok THEN a
    ELSE [n_reads  |-> a.n_reads + 1,
          n_bases  |-> a.n_bases + result.basecall,
          n_events |-> a.n_events + result.n_ev,
          timings  |-> <<a.timings[1] + result.network_time,
                         a.timings[2] + result.decode_time>>,
          fasta    |-> Append(a.fasta, <<result.fname, result.basecall>>)]

(* util.group_by_list(fast5_files, [n_files]): the next chunk is the first
   n_files reads left, fewer at the end *)
NextChunk(files, n_files) ==
    SubSeq(files, 1, IF n_files < Len(files) THEN n_files ELSE Len(files))

Drop(files, n) ==
    SubSeq(files, n + 1, Len(files))

Remove(files, i) ==
    SubSeq(files, 1, i - 1) \o SubSeq(files, i + 1, Len(files))

(* --platforms, as the n_files of each entry: absent, one device of the
   smallest or the largest capacity, two devices of different or of equal
   capacities *)
Platforms ==
    { <<>>, <<1>>, <<MaxCap>>, <<1, MaxCap>>, <<MaxCap, MaxCap>> }

Init ==
    /\ args \in [exc_opencl : BOOLEAN, jobs : 1..MaxJobs,
                 platforms : Platforms, write_events : BOOLEAN]
    /\ kmers \in KmerTables
    /\ pc = "select"
    /\ topology = "none"
    /\ workers = <<>>
    /\ \E n \in 1..MaxReads : fast5_files = [i \in 1..n |-> i]
    /\ mapper = <<>>
    /\ acc = [n_reads |-> 0, n_bases |-> 0, n_events |-> 0,
              timings |-> <<0, 0>>, fasta |-> <<>>]
    /\ consumed = <<>>
    /\ unit = UnitIdle
    /\ batch = BatchIdle

(* lines 349-381: build the workers and the mapper.  The CPU-only branch
   takes workers[0]: an IndexError when the list is empty. *)
Select ==
    /\ pc = "select"
    /\ workers' = Workers(args)
    /\ topology' = SelectTopology(args, workers')
    /\ pc' = IF topology' = "cpu" /\ workers' = <<>>
             THEN "index_error" ELSE "run"
    /\ UNCHANGED <<unit, batch, args, kmers, fast5_files, mapper, acc,
                   consumed>>

(* what a call of process_read does to the run *)
UnitStep(i, out) ==
    /\ fast5_files' = Remove(fast5_files, i)
    /\ IF out.status = "fault"
       THEN pc' = "fault" /\ mapper' = mapper
       ELSE pc' = pc /\ mapper' = Append(mapper, out.result)
    /\ UNCHANGED <<unit, batch, args, kmers, topology, workers, acc, consumed>>

(* what a call of process_read_opencl on the next n reads does to the run *)
BatchStep(n, out) ==
    /\ fast5_files' = Drop(fast5_files, n)
    /\ IF out.status = "fault"
       THEN pc' = "fault" /\ mapper' = mapper
       ELSE pc' = pc /\ mapper' = mapper \o out.ret
    /\ UNCHANGED <<unit, batch, args, kmers, topology, workers, acc, consumed>>

(* line 372, util.tang_imap(worker, fast5_files, threads=args.jobs,
   unordered=True): one of the reads in flight completes *)
CpuOnly ==
    /\ pc = "run"
    /\ topology = "cpu"
    /\ \E i \in 1..Len(fast5_files) :
         /\ i <= args.jobs
         /\ \E f \in UnitFates(Len(kmers)), onNone \in {"raise", "value"} :
              UnitStep(i, process_read(kmers, fast5_files[i], f.ext, f.post,
                                       min_prob, FALSE, args.write_events,
                                       onNone, CpuNetworkTime(f.post),
                                       CpuDecodeTime))

(* lines 376-378: itertools.imap over the chunks, chained; the next chunk is
   run when the for loop has taken every result of the one before *)
SingleDevice ==
    /\ pc = "run"
    /\ topology = "single"
    /\ mapper = <<>>
    /\ fast5_files # <<>>
    /\ LET chunk == NextChunk(fast5_files, workers[1].n_files)
           n     == Len(chunk)
       IN  \E f \in BatchFates(n, Len(kmers)), onNone \in {"raise", "value"} :
              BatchStep(n, process_read_opencl(kmers, chunk, f.raises,
                                               Survives(f), Posts(f),
                                               min_prob, args.write_events,
                                               onNone, DeviceNetworkTime,
                                               DeviceDecodeTime))

(* line 381, jobqueue.JobQueue(fast5_files, workers): a CPU worker takes the
   next read *)
HeteroCpu ==
    /\ pc = "run"
    /\ topology = "hetero"
    /\ fast5_files # <<>>
    /\ \E w \in 1..Len(workers) : ~workers[w].opencl
    /\ \E f \in UnitFates(Len(kmers)), onNone \in {"raise", "value"} :
         UnitStep(1, process_read(kmers, fast5_files[1], f.ext, f.post,
                                  min_prob, FALSE, args.write_events, onNone,
                                  CpuNetworkTime(f.post), CpuDecodeTime))

(* line 381, jobqueue.JobQueue(fast5_files, workers): a device worker takes
   the next n_files reads *)
HeteroDevice ==
    /\ pc = "run"
    /\ topology = "hetero"
    /\ fast5_files # <<>>
    /\ \E w \in 1..Len(workers) :
         /\ workers[w].opencl
         /\ LET chunk == NextChunk(fast5_files, workers[w].n_files)
                n     == Len(chunk)
            IN  \E f \in BatchFates(n, Len(kmers)),
                   onNone \in {"raise", "value"} :
                   BatchStep(n, process_read_opencl(kmers, chunk, f.raises,
                                                    Survives(f), Posts(f),
                                                    min_prob,
                                                    args.write_events,
                                                    onNone, DeviceNetworkTime,
                                                    DeviceDecodeTime))

(* lines 385-395: the for loop takes the next result *)
Consume ==
    /\ pc = "run"
    /\ mapper # <<>>
    /\ acc' = Aggregate(acc, Head(mapper))
    /\ consumed' = Append(consumed, Head(mapper))
    /\ mapper' = Tail(mapper)
    /\ UNCHANGED <<unit, batch, args, kmers, pc, topology, workers,
                   fast5_files>>

(* lines 396-407: the mapper is exhausted, the report is written *)
Finish ==
    /\ pc = "run"
    /\ mapper = <<>>
    /\ fast5_files = <<>>
    /\ pc' = "done"
    /\ UNCHANGED <<unit, batch, args, kmers, topology, workers, fast5_files,
                   mapper, acc, consumed>>

Next ==
    \/ Select
    \/ CpuOnly
    \/ SingleDevice
    \/ HeteroCpu
    \/ HeteroDevice
    \/ Consume
    \/ Finish

Spec ==
    Init /\ [][Next]_vars

-----------------------------------------------------------------------------
(* Properties of main, under Spec *)

NumDevices ==
    Len(args.platforms)

CpuWorkers ==
    IF args.exc_opencl THEN 0 ELSE args.jobs

(* the topology the configuration calls for *)
Expected ==
    IF NumDevices = 0 THEN "cpu"
    ELSE IF NumDevices = 1 /\ CpuWorkers = 0 THEN "single"
    ELSE "hetero"

Selected ==
    pc \notin {"idle", "select"}

(* C3 as claimed: the topology is a function of the configuration (0 devices:
   CPU-only; 1 device and 0 CPU workers: single device; otherwise
   heterogeneous) and for every configuration the selected branch has at
   least one worker to run. *)
C3_TopologyHasWorker ==
    Selected =>
        /\ topology = Expected
        /\ Len(workers) >= 1
        /\ pc # "index_error"

(* C3 as amended: the topology is that function of the configuration, and
   the selected branch has at least one worker in every configuration but
   --exc_opencl without --platforms; there the worker list is empty and main
   stops on workers[0] before any read is dispatched. *)
C3_TopologyByConfiguration ==
    Selected =>
        /\ topology = Expected
        /\ Len(workers) = CpuWorkers + NumDevices
        /\ (Len(workers) = 0) <=> (args.exc_opencl /\ NumDevices = 0)
        /\ (pc = "index_error") <=> (Len(workers) = 0)
        /\ pc = "index_error" =>
              /\ consumed = <<>>
              /\ mapper = <<>>
              /\ acc.n_reads = 0

C3_Witness ==
    /\ pc = "run"
    /\ topology = "hetero"
    /\ NumDevices = 1
    /\ CpuWorkers >= 1
    /\ consumed # <<>>

(* the Success results among a sequence of results, in order *)
RECURSIVE Successes(_)
Successes(results) ==
    IF results = <<>> THEN <<>>
    ELSE (IF results[1].ok THEN <<results[1]>> ELSE <<>>)
         \o Successes(Tail(results))

(* C6: after the for loop has taken any results, the read count equals the
   number of records written and the number of Success results taken, bases
   and events are the sums of their sequence lengths and event counts, the
   timing totals the sums of their times, and the records are those of the
   Success results in arrival order; a Failure changes none of these. *)
C6_AggregatorCounts ==
    LET ok == Successes(consumed)
    IN  /\ acc.n_reads = Len(ok)
        /\ acc.n_reads = Len(acc.fasta)
        /\ acc.n_bases = SumSeq([i \in 1..Len(ok) |-> ok[i].basecall])
        /\ acc.n_events = SumSeq([i \in 1..Len(ok) |-> ok[i].n_ev])
        /\ acc.timings[1] = SumSeq([i \in 1..Len(ok) |-> ok[i].network_time])
        /\ acc.timings[2] = SumSeq([i \in 1..Len(ok) |-> ok[i].decode_time])
        /\ acc.fasta = [i \in 1..Len(ok) |-> <<ok[i].fname, ok[i].basecall>>]

C6_Witness ==
    /\ pc = "done"
    /\ Len(consumed) = 3
    /\ ~consumed[2].ok
    /\ acc.n_reads = 2
    /\ acc.n_events = 3

(* C7: on the single-device path the results of one chunk at a time reach
   the for loop, and the Success results reach it in the order of the input
   reads. *)
C7_SingleDeviceOrder ==
    topology = "single" =>
        LET ok == Successes(consumed \o mapper)
        IN  /\ \A i \in 1..Len(ok), j \in 1..Len(ok) :
                  i < j => ok[i].fname < ok[j].fname
            /\ Len(mapper) <= workers[1].n_files

C7_Witness ==
    /\ topology = "single"
    /\ pc = "done"
    /\ workers[1].n_files = 2
    /\ Len(consumed) = 3
    /\ \A i \in 1..3 : consumed[i].ok /\ consumed[i].fname = i

====
